---- MODULE Spec2Model ----
(***************************************************************************)
(* LocalOpts.cpp: a local (per basic block) optimizer over an LLVM-like    *)
(* IR.  The module is a sequence of functions, a function a sequence of    *)
(* basic blocks, a block a sequence of instructions.  Every instruction    *)
(* carries its own use-list, kept by the IR primitives                     *)
(* (replaceAllUsesWith, insertAfter, eraseFromParent) the passes call.     *)
(***************************************************************************)
EXTENDS Integers, Sequences, FiniteSets, TLC

\* Bounds of the model.
MaxW == 4          \* largest integer bit-width of a block
MaxConst == 3      \* constants of the three-instruction blocks are 0..MaxConst
MaxFuncs == 2      \* functions per module (driver family)
MaxBlocks == 2     \* basic blocks per function (driver family)

VARIABLES
    M,            \* the module: Seq of functions, each a Seq of blocks
    w,            \* bit-width of the module's integer type
    fi,           \* Fiter of LocalOpts::run (index into M)
    bi,           \* Iter of runOnFunction (index into M[fi])
    pc,           \* "run", "blocks", "algebraic", "multi", "dce", "done"
    cur,          \* inst: the block iterator of the pass in progress
    Transformed,  \* runOnFunction's local
    result,       \* what run returned: "pending", "none", "all"
    M0,           \* the module as it was handed to run
    rauw,         \* log of the replaceAllUsesWith calls
    inserted,     \* log of the insertAfter calls
    erased,       \* log of the eraseFromParent calls
    applied,      \* log of the passes that returned: <<f, b, pass>>
    snap          \* the current block as each pass left it

vars == <<M, w, fi, bi, pc, cur, Transformed, result, M0, rauw, inserted,
          erased, applied, snap>>

----------------------------------------------------------------------------
\* Values: a ConstantInt, an external value (function argument), an Instruction.

Const(n) == [k |-> "c", n |-> n]
Ext == [k |-> "x", n |-> 0]
Ref(i) == [k |-> "i", n |-> i]

IsConstantInt(v) == v.k = "c"

Use(u, i) == [u |-> u, i |-> i]

ArithOps == {"Add", "Sub", "Mul", "SDiv"}
BinaryOps == ArithOps \cup {"Shl", "LShr"}

isBinaryOp(inst) == inst.op \in BinaryOps

RECURSIVE Pow2(_)
Pow2(k) == IF k = 0 THEN 1 ELSE 2 * Pow2(k - 1)

\* APInt of width w: values are bit patterns 0..2^w-1.
APAdd(a, b) == (a + b) % Pow2(w)
APSub(a, b) == (a - b + Pow2(w)) % Pow2(w)

isPowerOf2(v) == \E k \in 0..(w - 1) : v = Pow2(k)
exactLogBase2(v) == CHOOSE k \in 0..(w - 1) : v = Pow2(k)

\* ConstantInt::get(C->getType(), k): k truncated to the type's width.
ConstantIntGet(k) == Const(k % Pow2(w))

----------------------------------------------------------------------------
\* Blocks and the IR primitives.

Ids(blk) == {blk[p].id : p \in 1..Len(blk)}
PosOf(blk, id) == CHOOSE p \in 1..Len(blk) : blk[p].id = id
InstOf(blk, id) == blk[PosOf(blk, id)]

RECURSIVE MaxOf(_)
MaxOf(S) == IF S = {} THEN 0
            ELSE LET x == CHOOSE y \in S : TRUE
                     m == MaxOf(S \ {x})
                 IN IF x > m THEN x ELSE m

\* A new instruction is a new object: an identity no instruction of the
\* block has.
FreshId(blk) == MaxOf(Ids(blk)) + 1

\* The use-list entries that instruction `inst` holds on instruction `id`.
UsesBy(inst, id) ==
    (IF inst.a = Ref(id) THEN {Use(inst.id, 0)} ELSE {}) \cup
    (IF inst.b = Ref(id) THEN {Use(inst.id, 1)} ELSE {})

\* BinaryOperator::Create(op, a, b): a detached instruction with no uses.
BinaryOperatorCreate(id, op, a, b) ==
    [id |-> id, op |-> op, a |-> a, b |-> b, uses |-> {}]

\* Inst.replaceAllUsesWith(V): every use on Inst's use-list is pointed at V
\* and moves to V's use-list; Inst's own operands are untouched.
replaceAllUsesWith(blk, id, V) ==
    LET us == InstOf(blk, id).uses
    IN [p \in 1..Len(blk) |->
          LET ins == blk[p]
          IN [ins EXCEPT
                !.a = IF Use(ins.id, 0) \in us THEN V ELSE ins.a,
                !.b = IF Use(ins.id, 1) \in us THEN V ELSE ins.b,
                !.uses = IF ins.id = id THEN {}
                         ELSE IF V = Ref(ins.id) THEN ins.uses \cup us
                         ELSE ins.uses]]

\* new->insertAfter(anchor) of an instruction just made by
\* BinaryOperator::Create: its operands' use-lists gain its uses, and it is
\* spliced in right after the anchor.
insertAfter(blk, anchor, new) ==
    LET pos == PosOf(blk, anchor)
        reg == [p \in 1..Len(blk) |->
                  [blk[p] EXCEPT !.uses = blk[p].uses \cup UsesBy(new, blk[p].id)]]
    IN SubSeq(reg, 1, pos) \o <<new>> \o SubSeq(reg, pos + 1, Len(reg))

\* Inst.eraseFromParent(): the instruction leaves the block and is destroyed;
\* its operands lose the uses it held.
eraseFromParent(blk, pos) ==
    LET gone == blk[pos]
        rest == SubSeq(blk, 1, pos - 1) \o SubSeq(blk, pos + 1, Len(blk))
    IN [p \in 1..Len(rest) |->
          [rest[p] EXCEPT !.uses = rest[p].uses \ {Use(gone.id, 0), Use(gone.id, 1)}]]

----------------------------------------------------------------------------
\* getConstantFromInstruction: operand 0 wins when both are constants.

getConstantFromInstruction(inst) ==
    IF IsConstantInt(inst.a)
    THEN [ok |-> TRUE, C |-> inst.a.n, Param |-> inst.b]
    ELSE IF IsConstantInt(inst.b)
    THEN [ok |-> TRUE, C |-> inst.b.n, Param |-> inst.a]
    ELSE [ok |-> FALSE, C |-> 0, Param |-> inst.a]

----------------------------------------------------------------------------
\* algebraicIdentity_stregthReduction, one instruction of the walk.

NoRewrite == [kind |-> "none", k |-> 0, Param |-> Ext]
Rewrite(kind, k, Param) == [kind |-> kind, k |-> k, Param |-> Param]

\* Mutant: the zero is only looked for in operand 1 (x + 0, not 0 + x).
AddCase_Operand1Only(Inst) ==
    IF IsConstantInt(Inst.b) /\ Inst.b.n = 0
    THEN [kind |-> "param", k |-> 0, Param |-> Inst.a]
    ELSE [kind |-> "none", k |-> 0, Param |-> Ext]

\* Mutant: the test C == 0 is missing, x + c is replaced by x.
AddCase_AnyConstant(Inst) ==
    LET g == getConstantFromInstruction(Inst)
    IN IF ~g.ok THEN [kind |-> "none", k |-> 0, Param |-> Ext]
       ELSE [kind |-> "param", k |-> 0, Param |-> g.Param]

\* case Instruction::Add
AddCase(Inst) ==
    LET g == getConstantFromInstruction(Inst)
    IN IF ~g.ok THEN NoRewrite
       ELSE IF g.C = 0 THEN Rewrite("param", 0, g.Param)
       ELSE NoRewrite

\* Mutant: C + 1 is tested before C - 1.
MulCase_PlusBeforeMinus(Inst) ==
    LET g == getConstantFromInstruction(Inst)
    IN IF ~g.ok THEN NoRewrite
       ELSE IF g.C = 1 THEN Rewrite("param", 0, g.Param)
       ELSE IF isPowerOf2(g.C)
            THEN Rewrite("shl", exactLogBase2(g.C), g.Param)
       ELSE IF isPowerOf2(APAdd(g.C, 1))
            THEN Rewrite("shlsub", exactLogBase2(APAdd(g.C, 1)), g.Param)
       ELSE IF isPowerOf2(APSub(g.C, 1))
            THEN Rewrite("shladd", exactLogBase2(APSub(g.C, 1)), g.Param)
       ELSE NoRewrite

\* case Instruction::Mul
MulCase(Inst) ==
    LET g == getConstantFromInstruction(Inst)
    IN IF ~g.ok THEN NoRewrite
       ELSE IF g.C = 1 THEN Rewrite("param", 0, g.Param)
       ELSE IF isPowerOf2(g.C)
            THEN Rewrite("shl", exactLogBase2(g.C), g.Param)
       ELSE IF isPowerOf2(APSub(g.C, 1))
            THEN Rewrite("shladd", exactLogBase2(APSub(g.C, 1)), g.Param)
       ELSE IF isPowerOf2(APAdd(g.C, 1))
            THEN Rewrite("shlsub", exactLogBase2(APAdd(g.C, 1)), g.Param)
       ELSE NoRewrite

\* Mutant: the constant is looked for in both operands, as for Add and Mul.
SDivCase_EitherOperand(Inst) ==
    LET g == getConstantFromInstruction(Inst)
    IN IF ~g.ok THEN NoRewrite
       ELSE IF g.C = 1 THEN Rewrite("param", 0, g.Param)
       ELSE IF isPowerOf2(g.C)
            THEN Rewrite("lshr", exactLogBase2(g.C), g.Param)
       ELSE NoRewrite

\* case Instruction::SDiv: only operand 1 is looked at.
SDivCase(Inst) ==
    IF ~IsConstantInt(Inst.b) THEN NoRewrite
    ELSE IF Inst.b.n = 1 THEN Rewrite("param", 0, Inst.a)
    ELSE IF isPowerOf2(Inst.b.n)
         THEN Rewrite("lshr", exactLogBase2(Inst.b.n), Inst.a)
    ELSE NoRewrite

\* switch(instructionOpcode)
AlgebraicCase(Inst) ==
    CASE Inst.op = "Add" -> AddCase(Inst)
      [] Inst.op = "Mul" -> MulCase(Inst)
      [] Inst.op = "SDiv" -> SDivCase(Inst)
      [] OTHER -> NoRewrite

\* The value the uses of Inst are redirected to by rewrite d, the new
\* instructions taking the identities nid, nid + 1.
Replacement(d, nid) ==
    CASE d.kind = "param" -> d.Param
      [] d.kind \in {"shl", "lshr"} -> Ref(nid)
      [] d.kind \in {"shladd", "shlsub"} -> Ref(nid + 1)
      [] OTHER -> Ext

\* The instructions rewrite d creates, in the order they are inserted.
Created(d, nid) ==
    LET shift == BinaryOperatorCreate(nid, IF d.kind = "lshr" THEN "LShr" ELSE "Shl",
                                      d.Param, ConstantIntGet(d.k))
    IN CASE d.kind \in {"shl", "lshr"} -> <<shift>>
         [] d.kind = "shladd" ->
              <<shift, BinaryOperatorCreate(nid + 1, "Add", Ref(nid), d.Param)>>
         [] d.kind = "shlsub" ->
              <<shift, BinaryOperatorCreate(nid + 1, "Sub", Ref(nid), d.Param)>>
         [] OTHER -> <<>>

\* The block after the body of the walk ran on the instruction at pos.
AlgebraicBody(blk, pos) ==
    LET Inst == blk[pos]
        d == AlgebraicCase(Inst)
        nid == FreshId(blk)
        new == Created(d, nid)
        b1 == IF Len(new) >= 1 THEN insertAfter(blk, Inst.id, new[1]) ELSE blk
        b2 == IF Len(new) >= 2 THEN insertAfter(b1, new[1].id, new[2]) ELSE b1
    IN IF d.kind = "none" THEN blk
       ELSE replaceAllUsesWith(b2, Inst.id, Replacement(d, nid))

----------------------------------------------------------------------------
\* multiInstructionOptimization, one instruction of the walk.

\* The next use the user iterator yields.  The outcome of the loop does not
\* depend on the order: a matching user has Inst and a constant as its
\* operands, so redirecting the uses of one user changes no other user of
\* Inst and never Inst's own use-list.
FirstUse(S) ==
    CHOOSE e \in S : \A e2 \in S : e.u < e2.u \/ (e.u = e2.u /\ e.i <= e2.i)

\* Mutant: the user is matched on Inst's own opcode.
oppositeOpCode_Same(op) == op

oppositeOpCode(op) == IF op = "Add" THEN "Sub" ELSE "Add"

\* The test on one user of Inst: opposite opcode, a constant operand, and
\* the same constant as Inst's.
UserCancels(U, C, opp) ==
    /\ U.op = opp
    /\ getConstantFromInstruction(U).ok
    /\ C = getConstantFromInstruction(U).C

\* The loop on the users of Inst; acc is the block so far and the
\* replaceAllUsesWith calls made so far.
RECURSIVE CancelUsers(_, _, _, _, _)
CancelUsers(acc, todo, C, Param, opp) ==
    IF todo = {} THEN acc
    ELSE LET e == FirstUse(todo)
             U == InstOf(acc.blk, e.u)
             nb == replaceAllUsesWith(acc.blk, U.id, Param)
         IN IF UserCancels(U, C, opp)
            THEN CancelUsers([blk |-> nb,
                              log |-> Append(acc.log, [inst |-> U, by |-> Param, blk |-> nb])],
                             todo \ {e}, C, Param, opp)
            ELSE CancelUsers(acc, todo \ {e}, C, Param, opp)

MultiBody(blk, pos) ==
    LET Inst == blk[pos]
        g == getConstantFromInstruction(Inst)
        none == [blk |-> blk, log |-> <<>>]
    IN IF ~(Inst.op = "Add" \/ Inst.op = "Sub") THEN none
       ELSE IF ~g.ok THEN none
       ELSE CancelUsers(none, Inst.uses, g.C, g.Param, oppositeOpCode(Inst.op))

----------------------------------------------------------------------------
\* deadCodeElimination, one instruction of the walk.

\* Mutant: the test isBinaryOp is missing.
DceErases_AnyOpcode(Inst) == Inst.uses = {}

\* Mutant: the test hasNUses(0) is missing.
DceErases_IgnoreUses(Inst) == isBinaryOp(Inst)

DceErases(Inst) == Inst.uses = {} /\ isBinaryOp(Inst)

----------------------------------------------------------------------------
\* What each pass returns.
algebraicReturn == TRUE
multiReturn == TRUE
dceReturn == TRUE

----------------------------------------------------------------------------
\* The modules handed to the optimizer.

Raw(op, a, b) == [op |-> op, a |-> a, b |-> b]

\* A block as the IR builder leaves it: instructions 1..n in order, use-lists
\* the inverse of the operand references.
MkBlock(raw) ==
    [p \in 1..Len(raw) |->
       [id |-> p, op |-> raw[p].op, a |-> raw[p].a, b |-> raw[p].b,
        uses |-> UNION {UsesBy([id |-> q, a |-> raw[q].a, b |-> raw[q].b], p) :
                          q \in 1..Len(raw)}]]

Consts(hi) == {Const(n) : n \in 0..hi}

\* Three-instruction blocks: an arithmetic instruction on constants and the
\* argument, a second one that may use the first, and a non-binary
\* instruction (a store, a call, a return) that uses one of them.
ChainBlocks ==
    LET V0 == {Ext} \cup Consts(MaxConst)
        V1 == V0 \cup {Ref(1)}
    IN {MkBlock(<<Raw(o1, a1, b1), Raw(o2, a2, b2), Raw("Other", u, Ext)>>) :
          o1 \in ArithOps, a1 \in V0, b1 \in V0,
          o2 \in ArithOps,
          a2 \in V1, b2 \in {v \in V1 : TRUE},
          u \in {Ext, Ref(1), Ref(2)}}

\* One Mul or SDiv of the argument and a constant, in either operand order,
\* and its user.
ArithBlocks(width) ==
    {MkBlock(<<Raw(o, a, b), Raw("Other", Ref(1), Ext)>>) :
       o \in {"Mul", "SDiv"},
       a \in {Ext} \cup Consts(Pow2(width) - 1),
       b \in {Ext} \cup Consts(Pow2(width) - 1)}

DriverBlocks ==
    { MkBlock(<<Raw("Other", Ext, Ext)>>),
      MkBlock(<<Raw("Mul", Ext, Const(2)), Raw("Other", Ref(1), Ext)>>) }

RECURSIVE SeqsUpTo(_, _)
SeqsUpTo(S, n) ==
    IF n = 0 THEN {<<>>}
    ELSE LET shorter == SeqsUpTo(S, n - 1)
         IN shorter \cup {Append(s, x) : s \in {t \in shorter : Len(t) = n - 1}, x \in S}

NoSnap == [algebraic |-> <<>>, multi |-> <<>>, dce |-> <<>>]

Start(mod, width) ==
    /\ M = mod /\ M0 = mod /\ w = width
    /\ fi = 1 /\ bi = 1 /\ pc = "run" /\ cur = 1
    /\ Transformed = FALSE /\ result = "pending"
    /\ rauw = <<>> /\ inserted = <<>> /\ erased = <<>> /\ applied = <<>>
    /\ snap = NoSnap

Init == \E blk \in ChainBlocks : Start(<<<<blk>>>>, MaxW)

InitArith == \E width \in 1..MaxW : \E blk \in ArithBlocks(width) :
                Start(<<<<blk>>>>, width)

InitDriver == \E mod \in SeqsUpTo(SeqsUpTo(DriverBlocks, MaxBlocks), MaxFuncs) :
                Start(mod, MaxW)

----------------------------------------------------------------------------
\* The program.

Blk == M[fi][bi]

Tag(log, pass) ==
    [n \in 1..Len(log) |->
       [f |-> fi, b |-> bi, pass |-> pass, inst |-> log[n].inst,
        by |-> log[n].by, blk |-> log[n].blk]]

\* LocalOpts::run: the loop on the module's functions.
RunLoop ==
    /\ pc = "run"
    /\ IF fi > Len(M)
       THEN /\ result' = "all" /\ pc' = "done"
            /\ UNCHANGED <<bi, Transformed>>
       ELSE /\ Transformed' = FALSE /\ bi' = 1 /\ pc' = "blocks"
            /\ UNCHANGED result
    /\ UNCHANGED <<M, w, fi, cur, M0, rauw, inserted, erased, applied, snap>>

\* runOnFunction: the loop on the function's blocks, and its return to run.
BlockLoop ==
    /\ pc = "blocks"
    /\ IF bi > Len(M[fi])
       THEN IF Transformed
            THEN /\ result' = "none" /\ pc' = "done"
                 /\ UNCHANGED <<fi, cur, snap>>
            ELSE /\ fi' = fi + 1 /\ pc' = "run"
                 /\ UNCHANGED <<result, cur, snap>>
       ELSE /\ pc' = "algebraic" /\ cur' = 1 /\ snap' = NoSnap
            /\ UNCHANGED <<fi, result>>
    /\ UNCHANGED <<M, w, bi, Transformed, M0, rauw, inserted, erased, applied>>

AlgebraicStep ==
    /\ pc = "algebraic" /\ cur <= Len(Blk)
    /\ LET Inst == Blk[cur]
           d == AlgebraicCase(Inst)
           nid == FreshId(Blk)
           new == Created(d, nid)
           nb == AlgebraicBody(Blk, cur)
       IN /\ M' = [M EXCEPT ![fi][bi] = nb]
          /\ rauw' = IF d.kind = "none" THEN rauw
                     ELSE Append(rauw, [f |-> fi, b |-> bi, pass |-> "algebraic",
                                        inst |-> Inst, by |-> Replacement(d, nid),
                                        blk |-> nb])
          /\ inserted' = inserted \o
                [n \in 1..Len(new) |-> [f |-> fi, b |-> bi, id |-> new[n].id, of |-> Inst.id]]
    /\ cur' = cur + 1
    /\ UNCHANGED <<w, fi, bi, pc, Transformed, result, M0, erased, applied, snap>>

AlgebraicReturn ==
    /\ pc = "algebraic" /\ cur > Len(Blk)
    /\ Transformed' = (IF algebraicReturn THEN TRUE ELSE Transformed)
    /\ pc' = "multi" /\ cur' = 1
    /\ applied' = Append(applied, <<fi, bi, "algebraic">>)
    /\ snap' = [snap EXCEPT !.algebraic = Blk]
    /\ UNCHANGED <<M, w, fi, bi, result, M0, rauw, inserted, erased>>

MultiStep ==
    /\ pc = "multi" /\ cur <= Len(Blk)
    /\ LET r == MultiBody(Blk, cur)
       IN /\ M' = [M EXCEPT ![fi][bi] = r.blk]
          /\ rauw' = rauw \o Tag(r.log, "multi")
    /\ cur' = cur + 1
    /\ UNCHANGED <<w, fi, bi, pc, Transformed, result, M0, inserted, erased, applied, snap>>

MultiReturn ==
    /\ pc = "multi" /\ cur > Len(Blk)
    /\ Transformed' = (IF multiReturn THEN TRUE ELSE Transformed)
    /\ pc' = "dce" /\ cur' = 1
    /\ applied' = Append(applied, <<fi, bi, "multi">>)
    /\ snap' = [snap EXCEPT !.multi = Blk]
    /\ UNCHANGED <<M, w, fi, bi, result, M0, rauw, inserted, erased>>

DceStep ==
    /\ pc = "dce" /\ cur <= Len(Blk)
    /\ IF DceErases(Blk[cur])
       THEN /\ M' = [M EXCEPT ![fi][bi] = eraseFromParent(Blk, cur)]
            /\ erased' = Append(erased, [f |-> fi, b |-> bi, inst |-> Blk[cur]])
            /\ cur' = cur
       ELSE /\ cur' = cur + 1
            /\ UNCHANGED <<M, erased>>
    /\ UNCHANGED <<w, fi, bi, pc, Transformed, result, M0, rauw, inserted, applied, snap>>

DceReturn ==
    /\ pc = "dce" /\ cur > Len(Blk)
    /\ Transformed' = (IF dceReturn THEN TRUE ELSE Transformed)
    /\ pc' = "blocks" /\ bi' = bi + 1
    /\ applied' = Append(applied, <<fi, bi, "dce">>)
    /\ snap' = [snap EXCEPT !.dce = Blk]
    /\ UNCHANGED <<M, w, fi, cur, result, M0, rauw, inserted, erased>>

Next ==
    \/ RunLoop
    \/ BlockLoop
    \/ AlgebraicStep
    \/ AlgebraicReturn
    \/ MultiStep
    \/ MultiReturn
    \/ DceStep
    \/ DceReturn

Spec == Init /\ [][Next]_vars
SpecArith == InitArith /\ [][Next]_vars
SpecDriver == InitDriver /\ [][Next]_vars

----------------------------------------------------------------------------
\* What an instruction computes, for the value x of the argument: the IR's
\* w-bit arithmetic.  Signed division truncates toward zero; division by
\* zero has no defined result and is given 0 here (no property below reads
\* it).  A non-binary instruction is opaque.

Signed(v) == IF v >= Pow2(w - 1) THEN v - Pow2(w) ELSE v
Abs(n) == IF n < 0 THEN -n ELSE n
Wrap(n) == (n + Pow2(w) * Pow2(w)) % Pow2(w)

SDivVal(a, b) ==
    LET sa == Signed(a)
        sb == Signed(b)
        q == Abs(sa) \div Abs(sb)
    IN IF sb = 0 THEN 0
       ELSE IF (sa < 0) = (sb < 0) THEN Wrap(q) ELSE Wrap(-q)

OpVal(op, a, b) ==
    CASE op = "Add" -> APAdd(a, b)
      [] op = "Sub" -> APSub(a, b)
      [] op = "Mul" -> (a * b) % Pow2(w)
      [] op = "SDiv" -> SDivVal(a, b)
      [] op = "Shl" -> (a * Pow2(b)) % Pow2(w)
      [] op = "LShr" -> a \div Pow2(b)
      [] OTHER -> 0

RECURSIVE Eval(_, _, _)
Eval(blk, v, x) ==
    CASE v.k = "c" -> v.n
      [] v.k = "x" -> x
      [] OTHER -> LET ins == InstOf(blk, v.n)
                  IN OpVal(ins.op, Eval(blk, ins.a, x), Eval(blk, ins.b, x))

Values == 0..(Pow2(w) - 1)

----------------------------------------------------------------------------
\* Properties.

TheBlock0 == M0[1][1]
TheBlock == M[1][1]
AlgebraicEnd == pc = "algebraic" /\ cur > Len(Blk)
MultiEnd == pc = "multi" /\ cur > Len(Blk)
DceEnd == pc = "dce" /\ cur > Len(Blk)

RauwOf(pass, id) ==
    {n \in 1..Len(rauw) : rauw[n].pass = pass /\ rauw[n].inst.id = id}
InsertedFor(id) == {n \in 1..Len(inserted) : inserted[n].of = id}

\* C1: whenever multiInstructionOptimization redirects the uses of a user U
\* of an Add/Sub instruction I to I's variable operand Param, U computes the
\* value of Param, for every value of the argument, every constant and
\* every operand position of the constant in I and in U.
C1_CancelPreservesValue ==
    \A n \in 1..Len(rauw) :
       (rauw[n].pass = "multi" /\ rauw[n].inst.uses # {}) =>
          \A x \in Values :
             Eval(rauw[n].blk, Ref(rauw[n].inst.id), x) = Eval(rauw[n].blk, rauw[n].by, x)

PassesOf(f, b) == << <<f, b, "algebraic">>, <<f, b, "multi">>, <<f, b, "dce">> >>

RECURSIVE BlocksLog(_, _, _)
BlocksLog(f, b, n) ==
    IF b > n THEN <<>> ELSE PassesOf(f, b) \o BlocksLog(f, b + 1, n)

RECURSIVE ModuleLog(_, _)
ModuleLog(mod, f) ==
    IF f > Len(mod) THEN <<>>
    ELSE BlocksLog(f, 1, Len(mod[f])) \o ModuleLog(mod, f + 1)

\* C2: when LocalOpts::run returns, every basic block of every function of
\* the module has had the three passes applied exactly once each, in the
\* order algebraic, multi, dce; no block is left unprocessed.
C2_EveryBlockProcessed ==
    pc = "done" => applied = ModuleLog(M0, 1)

Mutated ==
    \/ \E n \in 1..Len(rauw) : rauw[n].inst.uses # {}
    \/ inserted # <<>>
    \/ erased # <<>>

\* C3: the run reports "changed" (PreservedAnalyses::none) if and only if an
\* instruction had an operand redirected, was inserted or was erased.
C3_ChangedIffMutated ==
    pc = "done" => ((result = "none") <=> Mutated)

\* The Mul or SDiv of the argument and one constant c handed to the reducer.
OneConst(I) == (I.a = Ext /\ IsConstantInt(I.b)) \/ (IsConstantInt(I.a) /\ I.b = Ext)
ConstOf(I) == IF IsConstantInt(I.a) THEN I.a.n ELSE I.b.n
Visited1 == pc \in {"multi", "dce", "done"} \/ (pc = "algebraic" /\ cur > 1)
                \/ (pc = "blocks" /\ bi > 1)

NearPow2(c, d) == \E k \in 0..(w - 1) : (c + d + Pow2(w)) % Pow2(w) = Pow2(k)
LogOf(c) == CHOOSE k \in 0..(w - 1) : c = Pow2(k)

\* The only replaceAllUsesWith call of the reducer on instruction 1.
TheRauw1 == rauw[CHOOSE n \in RauwOf("algebraic", 1) : TRUE]

IsInst(blk, v, op, a, b) ==
    /\ v.k = "i" /\ v.n \in Ids(blk)
    /\ InstOf(blk, v.n).op = op /\ InstOf(blk, v.n).a = a /\ InstOf(blk, v.n).b = b

\* C4: for every width w, value x and constant c in either operand position
\* of a Mul, exactly the first matching case fires and the replacement
\* equals x*c modulo 2^w: x when c = 1, x<<k when c = 2^k, (x<<k)+x when
\* c-1 = 2^k, (x<<k)-x when c+1 = 2^k; no rewrite for any other c.
C4_MulStrengthReduction ==
    LET I == TheBlock0[1]
        c == ConstOf(I)
        R == RauwOf("algebraic", 1)
        r == TheRauw1
        shift(k) == CHOOSE v \in {Ref(i) : i \in Ids(r.blk)} :
                        IsInst(r.blk, v, "Shl", Ext, Const(k))
        hasShift(k) == \E i \in Ids(r.blk) : IsInst(r.blk, Ref(i), "Shl", Ext, Const(k))
        sameValue == \A x \in Values : Eval(r.blk, r.by, x) = (x * c) % Pow2(w)
    IN (I.op = "Mul" /\ OneConst(I) /\ Visited1) =>
         IF c = 1
         THEN Cardinality(R) = 1 /\ r.by = Ext /\ InsertedFor(1) = {} /\ sameValue
         ELSE IF NearPow2(c, 0)
         THEN /\ Cardinality(R) = 1 /\ Cardinality(InsertedFor(1)) = 1
              /\ IsInst(r.blk, r.by, "Shl", Ext, Const(LogOf(c)))
              /\ sameValue
         ELSE IF NearPow2(c, -1)
         THEN /\ Cardinality(R) = 1 /\ Cardinality(InsertedFor(1)) = 2
              /\ hasShift(LogOf(APSub(c, 1)))
              /\ IsInst(r.blk, r.by, "Add", shift(LogOf(APSub(c, 1))), Ext)
              /\ sameValue
         ELSE IF NearPow2(c, 1)
         THEN /\ Cardinality(R) = 1 /\ Cardinality(InsertedFor(1)) = 2
              /\ hasShift(LogOf(APAdd(c, 1)))
              /\ IsInst(r.blk, r.by, "Sub", shift(LogOf(APAdd(c, 1))), Ext)
              /\ sameValue
         ELSE R = {} /\ InsertedFor(1) = {}

\* A Mul by 2^k - 1 (7 on four or more bits) was replaced by (x<<k) - x.
C4_Witness ==
    /\ pc = "done" /\ w >= 4
    /\ TheBlock0[1].op = "Mul" /\ TheBlock0[1].a = Const(7) /\ TheBlock0[1].b = Ext
    /\ RauwOf("algebraic", 1) # {}
    /\ TheRauw1.by.k = "i" /\ InstOf(TheRauw1.blk, TheRauw1.by.n).op = "Sub"

\* The signed quotient x / c of a non-negative x, as a w-bit pattern.
SignedQuotient(x, c) ==
    IF Signed(c) > 0 THEN x \div Signed(c)
    ELSE Wrap(-(x \div (-Signed(c))))

\* C5: for every width w, non-negative x and constant divisor c = 2^k, k >= 1
\* (2^(w-1) included) in operand 1 of an SDiv, the logical right shift by k
\* that replaces it equals the signed quotient x / c; for c = 1 the uses go
\* to x itself; an SDiv whose operand 1 is not a constant, or is a constant
\* that is neither 1 nor a power of two, is not rewritten.
C5_SDivStrengthReduction ==
    LET I == TheBlock0[1]
        c == I.b.n
        R == RauwOf("algebraic", 1)
        r == TheRauw1
    IN (I.op = "SDiv" /\ (I.a = Ext \/ I.b = Ext) /\ Visited1) =>
         IF IsConstantInt(I.b) /\ c = 1
         THEN Cardinality(R) = 1 /\ r.by = Ext /\ InsertedFor(1) = {}
         ELSE IF IsConstantInt(I.b) /\ \E k \in 1..(w - 1) : c = Pow2(k)
         THEN /\ Cardinality(R) = 1 /\ Cardinality(InsertedFor(1)) = 1
              /\ IsInst(r.blk, r.by, "LShr", Ext, Const(LogOf(c)))
              /\ \A x \in 0..(Pow2(w - 1) - 1) :
                    Eval(r.blk, r.by, x) = SignedQuotient(x, c)
         ELSE R = {} /\ InsertedFor(1) = {} /\ TheBlock = TheBlock0

\* An SDiv by 2^(w-1), the most negative constant, was replaced by a shift.
C5_Witness ==
    /\ pc = "done" /\ w >= 2
    /\ TheBlock0[1].op = "SDiv" /\ TheBlock0[1].a = Ext
    /\ TheBlock0[1].b = Const(Pow2(w - 1))
    /\ RauwOf("algebraic", 1) # {}
    /\ IsInst(TheRauw1.blk, TheRauw1.by, "LShr", Ext, Const(w - 1))

\* The pattern t = x + k, y = t - k, y the only user of t, y used by the
\* third instruction; x is the argument.
C6Pattern(k) ==
    /\ TheBlock0[1].op = "Add"
    /\ \/ TheBlock0[1].a = Ext /\ TheBlock0[1].b = Const(k)
       \/ TheBlock0[1].a = Const(k) /\ TheBlock0[1].b = Ext
    /\ TheBlock0[2].op = "Sub"
    /\ TheBlock0[2].a = Ref(1) /\ TheBlock0[2].b = Const(k)
    /\ TheBlock0[3].a = Ref(2)

IdSeq(blk) == [p \in 1..Len(blk) |-> blk[p].id]

\* C7: after deadCodeElimination no binary operator that had zero uses at
\* the end of the first two passes is left in the block; every instruction
\* it erased was a binary operator with an empty use-list when erased; the
\* survivors keep their relative order.
C7_DeadCodeElimination ==
    /\ \A n \in 1..Len(erased) :
          isBinaryOp(erased[n].inst) /\ erased[n].inst.uses = {}
    /\ DceEnd =>
          /\ \A p \in 1..Len(snap.multi) :
                (isBinaryOp(snap.multi[p]) /\ snap.multi[p].uses = {})
                   => snap.multi[p].id \notin Ids(Blk)
          /\ \A p \in 1..Len(snap.multi) :
                ~isBinaryOp(snap.multi[p]) => snap.multi[p].id \in Ids(Blk)
          /\ IdSeq(Blk) = SelectSeq(IdSeq(snap.multi), LAMBDA i : i \in Ids(Blk))

\* A block where the sweep erased a dead binary operator, kept a binary
\* operator that was still used, and kept the non-binary instruction.
C7_Witness ==
    /\ DceEnd /\ erased # <<>>
    /\ \E p \in 1..Len(Blk) : isBinaryOp(Blk[p]) /\ Blk[p].uses # {}
    /\ \E p \in 1..Len(Blk) : ~isBinaryOp(Blk[p]) /\ Blk[p].uses = {}

\* The pattern a = p * 2^k, b = a + 0 (or 0 + a), b used by the third
\* instruction; p is the argument.
C8Pattern(k) ==
    /\ TheBlock0[1].op = "Mul"
    /\ \/ TheBlock0[1].a = Ext /\ TheBlock0[1].b = Const(Pow2(k))
       \/ TheBlock0[1].a = Const(Pow2(k)) /\ TheBlock0[1].b = Ext
    /\ TheBlock0[2].op = "Add"
    /\ \/ TheBlock0[2].a = Ref(1) /\ TheBlock0[2].b = Const(0)
       \/ TheBlock0[2].a = Const(0) /\ TheBlock0[2].b = Ref(1)
    /\ TheBlock0[3].a = Ref(2)

\* C8: for a = p * 2^k (k >= 1), b = a + 0 with b used: after one run the
\* former user of b has the inserted shl(p, k) as its operand, the shift
\* was inserted right after a, and a and b have zero uses and are erased.
C8_MulThenAddZero ==
    \A k \in 1..(w - 1) :
       C8Pattern(k) =>
          /\ AlgebraicEnd =>
                /\ Blk[1].id = 1
                /\ IsInst(Blk, Ref(Blk[2].id), "Shl", Ext, Const(k))
                /\ Blk[2].id \notin Ids(TheBlock0)
          /\ MultiEnd => InstOf(Blk, 1).uses = {} /\ InstOf(Blk, 2).uses = {}
          /\ pc = "done" =>
                /\ Len(TheBlock) = 2
                /\ IsInst(TheBlock, Ref(TheBlock[1].id), "Shl", Ext, Const(k))
                /\ TheBlock[1].id \notin Ids(TheBlock0)
                /\ TheBlock[1].uses = {Use(3, 0)}
                /\ TheBlock[2].id = 3 /\ TheBlock[2].a = Ref(TheBlock[1].id)
                /\ {erased[n].inst.id : n \in 1..Len(erased)} = {1, 2}

C8_Witness ==
    /\ pc = "done" /\ C8Pattern(1)
    /\ Len(TheBlock) = 2 /\ TheBlock[1].op = "Shl" /\ Len(erased) = 2

\* C9 as stated: during one run of the reducer only instructions that were
\* in the block before the run have their uses replaced.
C9_Original ==
    \A n \in 1..Len(rauw) :
       (rauw[n].pass = "algebraic" /\ rauw[n].inst.uses # {}) =>
          rauw[n].inst.id \in Ids(M0[rauw[n].f][rauw[n].b])

\* C9 amended: an inserted shift or sub is never rewritten by the reducer in
\* the run that inserted it; an inserted add (shift + Param) is, exactly
\* when Param is the constant 0, which happens only for a Mul that is c * 0
\* with both operands constant when the reducer reaches it (c - 1 a power
\* of two, c not 1 or 2), and its uses then go to the inserted shift.
C9_Amended ==
    /\ \A n \in 1..Len(rauw) :
          (rauw[n].pass = "algebraic"
             /\ rauw[n].inst.id \notin Ids(M0[rauw[n].f][rauw[n].b])) =>
             /\ rauw[n].inst.op = "Add"
             /\ rauw[n].inst.b = Const(0)
             /\ rauw[n].by = rauw[n].inst.a
             /\ rauw[n].by.k = "i"
             /\ InstOf(rauw[n].blk, rauw[n].by.n).op = "Shl"
             /\ \E m \in 1..Len(inserted), j \in 1..(n - 1) :
                   /\ inserted[m].id = rauw[n].inst.id
                   /\ rauw[j].inst.id = inserted[m].of
                   /\ rauw[j].inst.op = "Mul"
                   /\ IsConstantInt(rauw[j].inst.a)
                   /\ rauw[j].inst.a.n \notin {1, 2}
                   /\ NearPow2(rauw[j].inst.a.n, -1)
                   /\ rauw[j].inst.b = Const(0)
    /\ AlgebraicEnd =>
          \A m \in 1..Len(inserted) :
             (InstOf(Blk, inserted[m].id).op = "Add"
                /\ InstOf(Blk, inserted[m].id).b = Const(0))
                => RauwOf("algebraic", inserted[m].id) # {}

\* The add inserted for Mul(3, 0) had its users moved to the shift.
C9_Witness ==
    \E n \in 1..Len(rauw) :
       /\ rauw[n].pass = "algebraic" /\ rauw[n].inst.uses # {}
       /\ rauw[n].inst.id \notin Ids(TheBlock0)
       /\ TheBlock0[1].a = Const(3) /\ TheBlock0[1].b = Const(0)

\* Every instruction operand precedes its user in the block, and the
\* use-lists are the exact inverse of the operand references.
WellFormed(blk) ==
    /\ \A p, q \in 1..Len(blk) : blk[p].id = blk[q].id => p = q
    /\ \A p \in 1..Len(blk) :
          \A v \in {blk[p].a, blk[p].b} :
             v.k = "i" => \E q \in 1..(p - 1) : blk[q].id = v.n
    /\ \A p \in 1..Len(blk) :
          blk[p].uses = UNION {UsesBy(blk[q], blk[p].id) : q \in 1..Len(blk)}

\* C10: a block that is well formed on entry is well formed after each of
\* the three passes: no operand refers to an erased instruction or to a
\* later one, and the use-lists are the inverse of the operand references.
C10_WellFormedAfterEachPass ==
    ((AlgebraicEnd \/ MultiEnd \/ DceEnd) /\ WellFormed(M0[fi][bi]))
       => WellFormed(Blk)

\* The end of the third pass of a block that had instructions inserted,
\* uses redirected by the canceller and instructions erased.
C10_Witness ==
    /\ DceEnd /\ inserted # <<>> /\ erased # <<>>
    /\ \E n \in 1..Len(rauw) : rauw[n].pass = "multi" /\ rauw[n].inst.uses # {}

====
